---- MODULE Spec2Model ----
(***************************************************************************)
(* Model of Lecture_1/practice_project/maze.py: the Node arena, the two    *)
(* frontier classes (StackFrontier, QueueFrontier), Maze.__init__ (parsing *)
(* of the maze text), Maze.neighbors and Maze.solve.                       *)
(*                                                                         *)
(* Cells are <<row, col>> with 0-based coordinates, as in the source.      *)
(* Python lists are sequences; walls[r][c] of the source is                *)
(* walls[r + 1][c + 1] here.  Node objects live in the arena `nodes`; a    *)
(* node is referred to by its index, 0 is None.                            *)
(***************************************************************************)
EXTENDS Integers, Sequences, FiniteSets, TLC

VARIABLES
  contents,      \* text of the maze file, a sequence of characters
  pc,            \* where the program is
  height,        \* Maze.height (0: attribute not set)
  width,         \* Maze.width
  walls,         \* Maze.walls
  start,         \* Maze.start (<<>>: attribute not set)
  goal,          \* Maze.goal (<<>>: attribute not set)
  solution,      \* Maze.solution (<<>>: None or not set)
  num_explored,  \* Maze.num_explored
  explored,      \* Maze.explored
  nodes,         \* every Node created so far, in creation order
  frontier,      \* the frontier's list of nodes (indices into nodes)
  cls,           \* class of the live frontier object
  discipline,    \* the discipline the caller of solve asked for
  op,            \* the call made last
  ret,           \* node returned by the last frontier remove() (0: none)
  removed,       \* history: the nodes the live frontier has returned so far
  exc,           \* exception raised by the last frontier call
  arg,           \* argument of the last neighbors() call
  result,        \* list returned by the last neighbors() call
  history        \* history: the outcomes of the earlier solve() calls

vars == <<contents, pc, height, width, walls, start, goal, solution,
          num_explored, explored, nodes, frontier, cls, discipline,
          op, ret, removed, exc, arg, result, history>>

mazeVars == <<height, width, walls, start, goal, solution>>
searchVars == <<num_explored, explored, nodes, frontier, cls, discipline>>

----------------------------------------------------------------------------
(* Bounds of the model *)

\* longest arbitrary maze text (characters, line breaks included)
MaxLen == 5
\* largest rectangular maze (height * width)
MaxCells == 8
\* most add() calls made on a frontier used directly
MaxAdds == 4
\* most solve() calls made on one maze
MaxSolves == 2
\* largest rectangular maze that is solved more than once
MaxCellsAgain == 6

----------------------------------------------------------------------------
(* Values *)

NL == "\n"
Chars == {"A", "B", " ", "#", NL}
Undefined == <<>>
None == 0
NoAction == "None"
NoException == "none"
EmptyFrontier == "empty frontier"
NoSolution == "no solution"
NoStart == "maze must have exactly one start point"
NoGoal == "maze must have exactly one goal"

Reverse(s) == [i \in 1..Len(s) |-> s[Len(s) + 1 - i]]

----------------------------------------------------------------------------
(* Maze.__init__ *)

\* str.count of a one-character string
RECURSIVE Count(_, _)
Count(text, ch) ==
  IF text = <<>> THEN 0
  ELSE (IF Head(text) = ch THEN 1 ELSE 0) + Count(Tail(text), ch)

\* str.splitlines: lines are cut at each line break; a last line that is
\* empty (the text is empty or ends with a line break) is not a line
RECURSIVE SplitFrom(_, _, _)
SplitFrom(text, lines, cur) ==
  IF text = <<>> THEN (IF cur = <<>> THEN lines ELSE Append(lines, cur))
  ELSE IF Head(text) = NL THEN SplitFrom(Tail(text), Append(lines, cur), <<>>)
  ELSE SplitFrom(Tail(text), lines, Append(cur, Head(text)))

SplitLines(text) == SplitFrom(text, <<>>, <<>>)

\* row i, column j of the walls table (0-based): contents[i][j] past the end
\* of a line raises IndexError, which makes the cell open
WallAt(lines, i, j) ==
  IF j + 1 > Len(lines[i + 1]) THEN FALSE
  ELSE lines[i + 1][j + 1] \notin {"A", "B", " "}

\* the cell the scan of lines 132-149 leaves in self.start / self.goal: the
\* last scanned cell (row-major, columns below width) that holds the marker
Marked(lines, h, w, ch) ==
  LET hits == {p \in (0..(h - 1)) \X (0..(w - 1)) :
                 p[2] + 1 <= Len(lines[p[1] + 1]) /\ lines[p[1] + 1][p[2] + 1] = ch}
  IN IF hits = {} THEN Undefined
     ELSE CHOOSE p \in hits :
            \A q \in hits : q[1] < p[1] \/ (q[1] = p[1] /\ q[2] <= p[2])

\* the check of line 120
BadStart(text) == Count(text, "A") # 1

\* mutant: the goal check only refuses a maze with no goal
BadGoalOnlyNone(text) == Count(text, "B") = 0

\* the check of line 122
BadGoal(text) == Count(text, "B") # 1

Construct ==
  /\ pc = "new"
  /\ op' = "Maze"
  /\ IF BadStart(contents)
     THEN /\ pc' = "raised"
          /\ exc' = NoStart
          /\ UNCHANGED mazeVars
     ELSE IF BadGoal(contents)
     THEN /\ pc' = "raised"
          /\ exc' = NoGoal
          /\ UNCHANGED mazeVars
     ELSE LET lines == SplitLines(contents)
              h == Len(lines)
              w == Len(lines[1])
          IN /\ height' = h
             /\ width' = w
             /\ walls' = [i \in 1..h |-> [j \in 1..w |-> WallAt(lines, i - 1, j - 1)]]
             /\ start' = Marked(lines, h, w, "A")
             /\ goal' = Marked(lines, h, w, "B")
             /\ solution' = Undefined
             /\ pc' = "constructed"
             /\ exc' = NoException
  /\ UNCHANGED <<contents, searchVars, ret, removed, arg, result, history>>

----------------------------------------------------------------------------
(* Node, StackFrontier, QueueFrontier *)

\* Node(state, parent, action)
Node(state, parent, action) == [state |-> state, parent |-> parent, action |-> action]

\* StackFrontier.add: list.append
Add(f, node) == Append(f, node)

\* StackFrontier.contains_state, inherited by QueueFrontier
ContainsState(f, ns, state) == \E i \in 1..Len(f) : ns[f[i]].state = state

\* StackFrontier.empty, inherited by QueueFrontier
Empty(f) == Len(f) = 0

\* mutant: the stack takes its oldest node
StackRemoveFirst(f) ==
  IF Empty(f)
  THEN [exc |-> EmptyFrontier, node |-> None, frontier |-> f]
  ELSE [exc |-> NoException, node |-> f[1], frontier |-> SubSeq(f, 2, Len(f))]

\* StackFrontier.remove: raises on an empty frontier, else list.pop()
StackRemove(f) ==
  IF Empty(f)
  THEN [exc |-> EmptyFrontier, node |-> None, frontier |-> f]
  ELSE [exc |-> NoException, node |-> f[Len(f)], frontier |-> SubSeq(f, 1, Len(f) - 1)]

\* mutant: the queue takes its newest node
QueueRemoveLast(f) ==
  IF Empty(f)
  THEN [exc |-> EmptyFrontier, node |-> None, frontier |-> f]
  ELSE [exc |-> NoException, node |-> f[Len(f)], frontier |-> SubSeq(f, 1, Len(f) - 1)]

\* QueueFrontier.remove: raises on an empty frontier, else takes
\* frontier[0] and keeps frontier[1:]
QueueRemove(f) ==
  IF Empty(f)
  THEN [exc |-> EmptyFrontier, node |-> None, frontier |-> f]
  ELSE [exc |-> NoException, node |-> f[1], frontier |-> SubSeq(f, 2, Len(f))]

\* mutant: no emptiness check, every frontier is handled by indexing, which
\* raises IndexError on an empty list
RemoveUnchecked(c, f) ==
  IF Empty(f)
  THEN [exc |-> "IndexError", node |-> None, frontier |-> f]
  ELSE IF c = "QueueFrontier" THEN QueueRemove(f) ELSE StackRemove(f)

\* frontier.remove(), dispatched on the class of the frontier object
Remove(c, f) == IF c = "QueueFrontier" THEN QueueRemove(f) ELSE StackRemove(f)

----------------------------------------------------------------------------
(* Maze.neighbors *)

Candidates(state) ==
  << <<"up", <<state[1] - 1, state[2]>> >>,
     <<"down", <<state[1] + 1, state[2]>> >>,
     <<"left", <<state[1], state[2] - 1>> >>,
     <<"right", <<state[1], state[2] + 1>> >> >>

\* mutant: row 0 is taken to be out of bounds
ValidOffByOne(h, w, ws, cell) ==
  /\ 0 < cell[1] /\ cell[1] < h
  /\ 0 <= cell[2] /\ cell[2] < w
  /\ ~ws[cell[1] + 1][cell[2] + 1]

\* the test of line 211
Valid(h, w, ws, cell) ==
  /\ 0 <= cell[1] /\ cell[1] < h
  /\ 0 <= cell[2] /\ cell[2] < w
  /\ ~ws[cell[1] + 1][cell[2] + 1]

RECURSIVE Filter(_, _, _, _)
Filter(cands, h, w, ws) ==
  IF cands = <<>> THEN <<>>
  ELSE IF Valid(h, w, ws, Head(cands)[2])
       THEN <<Head(cands)>> \o Filter(Tail(cands), h, w, ws)
       ELSE Filter(Tail(cands), h, w, ws)

Neighbors(h, w, ws, state) == Filter(Candidates(state), h, w, ws)

----------------------------------------------------------------------------
(* Maze.solve *)

\* mutant: the walk goes on to the root and collects the start as well
RECURSIVE TraceWithStart(_, _, _, _)
TraceWithStart(ns, node, actions, cells) ==
  IF node = None THEN <<actions, cells>>
  ELSE TraceWithStart(ns, ns[node].parent,
                      Append(actions, ns[node].action), Append(cells, ns[node].state))

\* lines 245-251: the walk up the parent chain, which collects the actions
\* and the cells from the goal node back to the child of the root
RECURSIVE Trace(_, _, _, _)
Trace(ns, node, actions, cells) ==
  IF ns[node].parent = None THEN <<actions, cells>>
  ELSE Trace(ns, ns[node].parent,
             Append(actions, ns[node].action), Append(cells, ns[node].state))

\* mutant: the two lists are not reversed
SolutionNotReversed(ns, node) == Trace(ns, node, <<>>, <<>>)

\* lines 245-255: the solution built from the goal node
Solution(ns, node) ==
  LET t == Trace(ns, node, <<>>, <<>>)
  IN <<Reverse(t[1]), Reverse(t[2])>>

\* mutant: a state already explored is added again
FreshIgnoresExplored(f, ns, ex, state) == ~ContainsState(f, ns, state)

\* mutant: a state already held by the frontier is added again
FreshIgnoresFrontier(f, ns, ex, state) == state \notin ex

\* line 263: whether the neighbor becomes a child node
Fresh(f, ns, ex, state) == ~ContainsState(f, ns, state) /\ state \notin ex

\* lines 262-265: the loop over the neighbors of the removed node; st holds
\* the arena and the frontier
RECURSIVE Expand(_, _, _, _)
Expand(nbrs, parent, ex, st) ==
  IF nbrs = <<>> THEN st
  ELSE LET action == Head(nbrs)[1]
           state == Head(nbrs)[2]
       IN IF Fresh(st.frontier, st.nodes, ex, state)
          THEN Expand(Tail(nbrs), parent, ex,
                      [nodes |-> Append(st.nodes, Node(state, parent, action)),
                       frontier |-> Add(st.frontier, Len(st.nodes) + 1)])
          ELSE Expand(Tail(nbrs), parent, ex, st)

\* mutant: the explored set of the call before is kept
BeginKeepsExplored(c) ==
  /\ num_explored' = 0
  /\ nodes' = Append(nodes, Node(start, None, NoAction))
  /\ cls' = c
  /\ frontier' = Add(<<>>, Len(nodes) + 1)
  /\ explored' = explored
  /\ removed' = {}
  /\ pc' = "solving"

\* lines 222-231 with the frontier an object of class c
Begin(c) ==
  /\ num_explored' = 0
  /\ nodes' = Append(nodes, Node(start, None, NoAction))
  /\ cls' = c
  /\ frontier' = Add(<<>>, Len(nodes) + 1)
  /\ explored' = {}
  /\ removed' = {}
  /\ pc' = "solving"

\* what a caller sees of a solve() call that has ended
Outcome ==
  [pc |-> pc, exc |-> exc, cls |-> cls, solution |-> solution,
   num_explored |-> num_explored, explored |-> explored]

\* solve(), up to the loop, called for discipline d and building a frontier
\* of class c.  Reading self.start raises AttributeError when __init__ never
\* set it.  The outcome of the call before, if any, goes to the history.
SolveCall(d, c) ==
  /\ op' = "solve"
  /\ discipline' = d
  /\ history' = IF op = "solve" THEN Append(history, Outcome) ELSE history
  /\ IF start = Undefined
     THEN /\ num_explored' = 0
          /\ pc' = "raised"
          /\ exc' = "AttributeError"
          /\ UNCHANGED <<explored, nodes, frontier, cls, removed>>
     ELSE /\ Begin(c)
          /\ exc' = NoException
  /\ UNCHANGED <<contents, mazeVars, ret, arg, result>>

\* Maze.solve as written: line 227 builds a StackFrontier, whatever the caller
\* wants
Solve ==
  /\ pc = "constructed"
  /\ \E d \in {"stack", "queue"} : SolveCall(d, "StackFrontier")

\* the frontier class of a discipline
ClassOf(d) == IF d = "queue" THEN "QueueFrontier" ELSE "StackFrontier"

\* solve with line 227 building the frontier of the discipline asked for
SolveWith ==
  /\ pc = "constructed"
  /\ \E d \in {"stack", "queue"} : SolveCall(d, ClassOf(d))

\* solve called once more on the same maze after the call before has
\* returned or raised, line 227 building a frontier of the same class again
SolveAgain ==
  /\ op = "solve"
  /\ pc \in {"solved", "raised"}
  /\ Len(history) + 1 < MaxSolves
  /\ SolveCall(discipline, cls)

\* mutant: a failed run records an empty solution
RaiseNoSolutionEmptyPath ==
  /\ pc' = "raised"
  /\ exc' = NoSolution
  /\ solution' = <<<<>>, <<>>>>
  /\ UNCHANGED <<height, width, walls, start, goal, num_explored, explored,
                 nodes, frontier, ret, removed>>

\* lines 236-237
RaiseNoSolution ==
  /\ pc' = "raised"
  /\ exc' = NoSolution
  /\ UNCHANGED <<mazeVars, num_explored, explored, nodes, frontier, ret, removed>>

\* lines 244-256
Found(node) ==
  /\ solution' = Solution(nodes, node)
  /\ pc' = "solved"
  /\ exc' = NoException
  /\ UNCHANGED <<height, width, walls, start, goal, explored, nodes>>

\* mutant: the explored cell is also marked in the wall table
ExploreClosesCell(node, rest) ==
  LET cell == nodes[node].state
      ex == explored \cup {cell}
      st == Expand(Neighbors(height, width, walls, cell), node, ex,
                   [nodes |-> nodes, frontier |-> rest])
  IN /\ explored' = ex
     /\ nodes' = st.nodes
     /\ frontier' = st.frontier
     /\ exc' = NoException
     /\ walls' = [walls EXCEPT ![cell[1] + 1][cell[2] + 1] = TRUE]
     /\ UNCHANGED <<pc, height, width, start, goal, solution>>

\* lines 258-265; rest is the frontier left by remove()
Explore(node, rest) ==
  LET ex == explored \cup {nodes[node].state}
      st == Expand(Neighbors(height, width, walls, nodes[node].state), node, ex,
                   [nodes |-> nodes, frontier |-> rest])
  IN /\ explored' = ex
     /\ nodes' = st.nodes
     /\ frontier' = st.frontier
     /\ exc' = NoException
     /\ UNCHANGED <<pc, mazeVars>>

\* lines 239-265, one pass of the loop past the emptiness check
Iterate ==
  LET r == Remove(cls, frontier)
  IN IF r.exc # NoException
     THEN /\ pc' = "raised"
          /\ exc' = r.exc
          /\ UNCHANGED <<mazeVars, num_explored, explored, nodes, frontier, ret, removed>>
     ELSE /\ ret' = r.node
          /\ removed' = removed \cup {r.node}
          /\ num_explored' = num_explored + 1
          /\ IF goal = Undefined
             THEN /\ pc' = "raised"
                  /\ exc' = "AttributeError"
                  /\ frontier' = r.frontier
                  /\ UNCHANGED <<mazeVars, explored, nodes>>
             ELSE IF nodes[r.node].state = goal
             THEN /\ frontier' = r.frontier
                  /\ Found(r.node)
             ELSE Explore(r.node, r.frontier)

\* mutant: a pass of the loop without the emptiness check of lines 236-237
LoopUnchecked ==
  /\ pc = "solving"
  /\ Iterate
  /\ UNCHANGED <<contents, cls, discipline, op, arg, result, history>>

\* lines 234-265, one pass of the loop
Loop ==
  /\ pc = "solving"
  /\ IF Empty(frontier) THEN RaiseNoSolution ELSE Iterate
  /\ UNCHANGED <<contents, cls, discipline, op, arg, result, history>>

----------------------------------------------------------------------------
(* Calls made from outside solve *)

\* m.neighbors(cell) on a maze just constructed
CallNeighbors ==
  /\ pc = "constructed"
  /\ op = "Maze"
  /\ \E cell \in (0..(height - 1)) \X (0..(width - 1)) :
       /\ arg' = cell
       /\ result' = Neighbors(height, width, walls, cell)
  /\ op' = "neighbors"
  /\ UNCHANGED <<contents, pc, mazeVars, searchVars, ret, removed, exc, history>>

\* states of the nodes a direct user of a frontier adds
UserStates == {<<0, 0>>, <<0, 1>>}

\* frontier.add(Node(state, None, None)) by a direct user of the frontier
CallAdd ==
  /\ pc = "frontier"
  /\ Len(nodes) < MaxAdds
  /\ \E state \in UserStates :
       /\ nodes' = Append(nodes, Node(state, None, NoAction))
       /\ frontier' = Add(frontier, Len(nodes) + 1)
  /\ op' = "add"
  /\ ret' = None
  /\ exc' = NoException
  /\ UNCHANGED <<contents, pc, mazeVars, num_explored, explored, cls, discipline,
                 removed, arg, result, history>>

\* frontier.remove() by a direct user of the frontier, who catches the
\* exception
CallRemove ==
  /\ pc = "frontier"
  /\ LET r == Remove(cls, frontier)
     IN /\ exc' = r.exc
        /\ ret' = r.node
        /\ frontier' = r.frontier
        /\ removed' = IF r.exc = NoException THEN removed \cup {r.node} ELSE removed
  /\ op' = "remove"
  /\ UNCHANGED <<contents, pc, mazeVars, num_explored, explored, nodes, cls,
                 discipline, arg, result, history>>

----------------------------------------------------------------------------
(* Maze texts the runs start from *)

\* every text of at most n characters
ShortTexts(n) == UNION {[1..k -> Chars] : k \in 0..n}

RECURSIVE JoinLines(_)
JoinLines(rows) ==
  IF rows = <<>> THEN <<>>
  ELSE Head(rows) \o <<NL>> \o JoinLines(Tail(rows))

\* the h by w maze with its start at cell a, its goal at cell b and walls at
\* the cells of W (cells numbered row by row from 1)
Grid(h, w, a, b, W) ==
  [i \in 1..h |-> [j \in 1..w |->
     LET k == (i - 1) * w + j
     IN IF k = a THEN "A" ELSE IF k = b THEN "B" ELSE IF k \in W THEN "#" ELSE " "]]

Shapes(n) == {s \in (1..n) \X (1..n) : s[1] * s[2] <= n}

\* every rectangular maze of at most n cells with one start, one goal and
\* walls anywhere else, each line ended by a line break
GridTexts(n) ==
  UNION {
    UNION {
      {JoinLines(Grid(s[1], s[2], p[1], p[2], W)) :
         W \in SUBSET ((1..(s[1] * s[2])) \ {p[1], p[2]})}
      : p \in {q \in (1..(s[1] * s[2])) \X (1..(s[1] * s[2])) : q[1] # q[2]}}
    : s \in Shapes(n)}

Inputs(len, cells) == ShortTexts(len) \cup GridTexts(cells)

\* the program before Maze(filename), the file holding one of texts
InitFrom(texts) ==
  /\ contents \in texts
  /\ pc = "new"
  /\ height = 0
  /\ width = 0
  /\ walls = <<>>
  /\ start = Undefined
  /\ goal = Undefined
  /\ solution = Undefined
  /\ num_explored = 0
  /\ explored = {}
  /\ nodes = <<>>
  /\ frontier = <<>>
  /\ cls = "none"
  /\ discipline = "none"
  /\ op = "none"
  /\ ret = None
  /\ removed = {}
  /\ exc = NoException
  /\ arg = Undefined
  /\ result = <<>>
  /\ history = <<>>

Init == InitFrom(Inputs(MaxLen, MaxCells))

\* the same on the mazes that are solved more than once
InitAgain == InitFrom(Inputs(MaxLen, MaxCellsAgain))

----------------------------------------------------------------------------
(* The maze as a graph, defined apart from neighbors() and solve() *)

Cells == (0..(height - 1)) \X (0..(width - 1))
OpenCells == {c \in Cells : ~walls[c[1] + 1][c[2] + 1]}

Adjacent(p, q) ==
  \/ p[1] = q[1] /\ (p[2] = q[2] + 1 \/ q[2] = p[2] + 1)
  \/ p[2] = q[2] /\ (p[1] = q[1] + 1 \/ q[1] = p[1] + 1)

\* the open cells one move away from a cell of layer, not seen before
Around(layer, seen) == {c \in OpenCells \ seen : \E p \in layer : Adjacent(p, c)}

\* breadth-first distance to target by layers; -1 when it is never met
RECURSIVE Distance(_, _, _, _)
Distance(layer, seen, target, d) ==
  IF target \in layer THEN d
  ELSE IF layer = {} THEN -1
  ELSE Distance(Around(layer, seen), seen \cup Around(layer, seen), target, d + 1)

RECURSIVE Closure(_)
Closure(seen) ==
  IF Around(seen, seen) = {} THEN seen ELSE Closure(seen \cup Around(seen, seen))

WellFormed == start # Undefined /\ goal # Undefined
MinMoves == Distance({start}, {start}, goal, 0)
ReachableCells == Closure({start})
GoalReachable == WellFormed /\ MinMoves >= 0

Finished == op = "solve" /\ pc # "solving"
Exhausted == pc = "raised" /\ exc = NoSolution

MoveOf(action, cell) ==
  CASE action = "up" -> <<cell[1] - 1, cell[2]>>
    [] action = "down" -> <<cell[1] + 1, cell[2]>>
    [] action = "left" -> <<cell[1], cell[2] - 1>>
    [] action = "right" -> <<cell[1], cell[2] + 1>>

----------------------------------------------------------------------------
(* Claims *)

ValidPath(sol) ==
  LET actions == sol[1]
      cells == sol[2]
      Before(i) == IF i = 1 THEN start ELSE cells[i - 1]
  IN /\ Len(actions) = Len(cells)
     /\ Len(cells) >= 1
     /\ cells[Len(cells)] = goal
     /\ \A i \in 1..Len(cells) :
          /\ actions[i] \in {"up", "down", "left", "right"}
          /\ cells[i] = MoveOf(actions[i], Before(i))
          /\ cells[i] \in OpenCells

\* C2: on a maze whose goal can be reached from the start, solve (over its
\* StackFrontier) ends with a solution, never with "no solution"; the cells
\* start one move from the start, every cell is a neighbor of the one before
\* by the action recorded with it, the last cell is the goal, and there are
\* as many actions as cells.
C2_StackFindsValidPath ==
  (Finished /\ cls = "StackFrontier" /\ GoalReachable)
    => (pc = "solved" /\ ValidPath(solution))

C2_Witness ==
  /\ pc = "solved"
  /\ cls = "StackFrontier"
  /\ ValidPath(solution)
  /\ Len(solution[2]) > MinMoves

\* the open cells solve has not explored yet
Unexplored == Cardinality(OpenCells \ explored)

\* C3: on every maze, under either frontier class, the loop of solve ends:
\* every pass that does not end it explores one more of the finitely many
\* open cells, so there are at most as many such passes as open cells; and
\* on a maze with a start and a goal the pass that ends it ends it with a
\* solution or with "no solution".
C3_Terminates ==
  /\ [][(pc = "solving" /\ pc' = "solving") => Unexplored' < Unexplored]_vars
  /\ [][(pc = "solving" /\ pc' # "solving" /\ goal # Undefined)
         => (pc' = "solved" \/ Exhausted')]_vars

C3_Witness ==
  /\ Exhausted
  /\ cls = "QueueFrontier"
  /\ num_explored >= 5

\* C4: on a maze whose goal cannot be reached from its start, solve ends
\* with "no solution" under either frontier class, and num_explored is then
\* the number of cells that can be reached from the start, the start
\* included.
C4_UnsolvableCountsReachable ==
  (Finished /\ WellFormed /\ ~GoalReachable)
    => (Exhausted /\ num_explored = Cardinality(ReachableCells))

C4_Witness ==
  /\ Exhausted
  /\ WellFormed
  /\ cls = "QueueFrontier"
  /\ num_explored = Cardinality(ReachableCells)
  /\ num_explored >= 4

Rank(action) ==
  CASE action = "up" -> 1 [] action = "down" -> 2
    [] action = "left" -> 3 [] action = "right" -> 4

\* C5: neighbors(cell) holds (action, destination) exactly when the
\* destination is the cell one move of that action away, lies inside
\* [0, height) x [0, width) and is no wall; the entries come in the order
\* up, down, left, right, and there are at most four.
C5_NeighborsExact ==
  op = "neighbors" =>
    /\ Len(result) <= 4
    /\ \A k \in 1..Len(result) :
         /\ Len(result[k]) = 2
         /\ result[k][1] \in {"up", "down", "left", "right"}
         /\ result[k][2] = MoveOf(result[k][1], arg)
    /\ \A action \in {"up", "down", "left", "right"} :
         (\E k \in 1..Len(result) : result[k] = <<action, MoveOf(action, arg)>>)
           <=> (MoveOf(action, arg) \in OpenCells)
    /\ \A i, j \in 1..Len(result) : i < j => Rank(result[i][1]) < Rank(result[j][1])

C5_Witness ==
  /\ op = "neighbors"
  /\ Len(result) = 2
  /\ \E c \in Cells \ OpenCells : Adjacent(c, arg)
  /\ arg[1] = 0

\* the nodes a frontier used directly still holds, by the history of the
\* calls: every node added (the arena, in the order of the add() calls) but
\* those returned
Held == (1..Len(nodes)) \ removed
Newest(S) == CHOOSE m \in S : \A x \in S : x <= m
Oldest(S) == CHOOSE m \in S : \A x \in S : m <= x
Without(f, m) == LET Keep(x) == x # m IN SelectSeq(f, Keep)

\* C6: whatever add() and remove() calls came before, remove() on a
\* StackFrontier that holds a node returns the node added last among those
\* not yet returned, and takes exactly that node out, the others staying in
\* their order.
C6_StackRemovesNewest ==
  [][(pc = "frontier" /\ cls = "StackFrontier" /\ op' = "remove" /\ Held # {})
       => /\ exc' = NoException
          /\ ret' = Newest(Held)
          /\ frontier' = Without(frontier, ret')
          /\ Len(frontier') = Len(frontier) - 1
          /\ {frontier'[i] : i \in 1..Len(frontier')} = Held \ {ret'}]_vars

C6_Witness ==
  /\ pc = "frontier"
  /\ cls = "StackFrontier"
  /\ op = "remove"
  /\ ret = 3
  /\ removed = {2, 3}
  /\ frontier = <<1>>

\* C7: whatever add() and remove() calls came before, remove() on a
\* QueueFrontier that holds a node returns the node added first among those
\* not yet returned, and takes exactly that node out, the others staying in
\* their order.
C7_QueueRemovesOldest ==
  [][(pc = "frontier" /\ cls = "QueueFrontier" /\ op' = "remove" /\ Held # {})
       => /\ exc' = NoException
          /\ ret' = Oldest(Held)
          /\ frontier' = Without(frontier, ret')
          /\ Len(frontier') = Len(frontier) - 1
          /\ {frontier'[i] : i \in 1..Len(frontier')} = Held \ {ret'}]_vars

C7_Witness ==
  /\ pc = "frontier"
  /\ cls = "QueueFrontier"
  /\ op = "remove"
  /\ ret = 2
  /\ removed = {1, 2}
  /\ frontier = <<3, 4>>

\* C8: remove() on a frontier of either class that holds no node, fresh or
\* emptied by earlier calls, raises "empty frontier", returns no node and
\* leaves the frontier empty.
C8_RemoveOnEmptyRaises ==
  [][(pc = "frontier" /\ op' = "remove" /\ Held = {})
       => /\ exc' = EmptyFrontier
          /\ ret' = None
          /\ frontier' = <<>>]_vars

C8_Witness ==
  /\ pc = "frontier"
  /\ op = "remove"
  /\ exc = EmptyFrontier
  /\ frontier = <<>>
  /\ Cardinality(removed) >= 2

\* the markers of a text, counted by position
NumberOf(ch) == Cardinality({i \in DOMAIN contents : contents[i] = ch})

\* C9: Maze(text) raises "maze must have exactly one start point / goal"
\* exactly when the text holds no or several "A", or no or several "B", and
\* then none of the maze's attributes is set.
C9_MalformedIffNotOneEach ==
  op # "none" =>
    /\ (op = "Maze" /\ pc = "raised") <=> (NumberOf("A") # 1 \/ NumberOf("B") # 1)
    /\ (op = "Maze" /\ pc = "raised") =>
         /\ exc \in {NoStart, NoGoal}
         /\ height = 0 /\ width = 0 /\ walls = <<>>
         /\ start = Undefined /\ goal = Undefined /\ solution = Undefined

C9_Witness ==
  /\ op = "Maze"
  /\ pc = "raised"
  /\ exc = NoGoal
  /\ NumberOf("A") = 1
  /\ NumberOf("B") = 2

\* C10 (as claimed): every maze that Maze(text) builds has a start and a
\* goal, which are two different cells inside [0, height) x [0, width) and
\* no walls.
C10_StartAndGoalSet ==
  pc = "constructed" =>
    /\ start # Undefined
    /\ goal # Undefined
    /\ start # goal
    /\ start \in OpenCells
    /\ goal \in OpenCells

\* C11: a solve() call that follows another on the same maze, for the same
\* discipline, ends as the one before did: solved with the same actions and
\* cells or with the same exception, with the same num_explored and the
\* same explored set.
C11_SolveAgainSameOutcome ==
  (Finished /\ history # <<>>) => Outcome = history[Len(history)]

C11_Witness ==
  /\ pc = "solved"
  /\ history # <<>>
  /\ history[Len(history)].pc = "solved"
  /\ Outcome = history[Len(history)]
  /\ num_explored >= 4
  /\ Len(solution[1]) >= 3

\* the nodes in the frontier
InFrontier == {frontier[i] : i \in 1..Len(frontier)}

\* C12: solve runs on a new frontier of the discipline its caller asked
\* for: the frontier of a run starts with the start node alone, is a
\* StackFrontier for "stack" and a QueueFrontier for "queue", and every pass
\* of the loop removes the node added last for "stack" and the node added
\* first for "queue".
C12_FrontierOfDiscipline ==
  /\ [][(op' = "solve" /\ pc' = "solving" /\ pc # "solving")
         => /\ cls' = ClassOf(discipline')
            /\ frontier' = <<Len(nodes')>>
            /\ nodes'[Len(nodes')] = Node(start, None, NoAction)]_vars
  /\ [][(pc = "solving" /\ frontier # <<>>)
         => ret' = IF discipline = "queue" THEN Oldest(InFrontier)
                                           ELSE Newest(InFrontier)]_vars

\* the cells of the nodes in a set of nodes
StatesOf(S) == {nodes[n].state : n \in S}

\* C13: in every state of a solve run no node in the frontier is for a cell
\* of the explored set.
C13_FrontierNotExplored ==
  (op = "solve" /\ pc = "solving") => StatesOf(InFrontier) \cap explored = {}

C13_Witness ==
  /\ op = "solve"
  /\ pc = "solving"
  /\ Len(frontier) >= 2
  /\ Cardinality(explored) >= 3

\* C14: in every state of a solve run, under either frontier class, no two
\* nodes in the frontier are for the same cell, and no two nodes added to
\* the frontier during the run are: a cell is added at most once.
C14_NoCellTwice ==
  op = "solve" =>
    /\ Cardinality(StatesOf(InFrontier)) = Len(frontier)
    /\ Cardinality(InFrontier) = Len(frontier)
    /\ Cardinality(StatesOf(1..Len(nodes))) = Len(nodes)

C14_Witness ==
  /\ op = "solve"
  /\ pc = "solving"
  /\ cls = "QueueFrontier"
  /\ Len(frontier) >= 3
  /\ Len(nodes) >= 6

\* C15: num_explored never exceeds the number of cells that are not walls,
\* and no cell is removed from the frontier more than once in a run.
C15_CounterBounded ==
  op = "solve" =>
    /\ num_explored <= Cardinality(OpenCells)
    /\ Cardinality(StatesOf(removed)) = Cardinality(removed)
    /\ Cardinality(removed) = num_explored

C15_Witness ==
  /\ op = "solve"
  /\ num_explored = Cardinality(OpenCells)
  /\ num_explored >= 6
  /\ OpenCells # Cells

\* C16: solve never calls remove() on an empty frontier, so no solve run
\* ends with "empty frontier": a pass that meets an empty frontier removes
\* nothing and raises "no solution", and every removal is from a frontier
\* that holds a node.
C16_NeverEmptyFrontier ==
  /\ [](op = "solve" => exc # EmptyFrontier)
  /\ [][(pc = "solving" /\ frontier = <<>>)
         => (Exhausted' /\ UNCHANGED <<num_explored, removed, ret>>)]_vars
  /\ [][(pc = "solving" /\ removed' # removed) => frontier # <<>>]_vars

C16_Witness ==
  /\ op = "solve"
  /\ Exhausted
  /\ frontier = <<>>
  /\ num_explored >= 3

\* C17: no step of solve changes the height, the width, the wall table, the
\* start or the goal of the maze, up to and including the step that ends
\* the run.
C17_GridUnchanged ==
  [][op' = "solve" => UNCHANGED <<height, width, walls, start, goal>>]_vars

C17_Witness ==
  /\ op = "solve"
  /\ pc = "solved"
  /\ OpenCells # Cells
  /\ Cardinality(explored) >= 4

\* C18: the maze has no solution from its construction until a pass of
\* solve removes a node for the goal, the only step that sets one; a run
\* that ends with "no solution" leaves the maze without a solution and
\* leaves num_explored and the explored set as the run made them.
C18_SolutionAbsentUntilGoal ==
  /\ [](pc # "solved" => solution = Undefined)
  /\ [][solution' # solution
         => (pc = "solving" /\ pc' = "solved" /\ nodes[ret'].state = goal)]_vars
  /\ [][(pc = "solving" /\ Exhausted')
         => UNCHANGED <<solution, num_explored, explored>>]_vars

C18_Witness ==
  /\ Exhausted
  /\ solution = Undefined
  /\ num_explored >= 4
  /\ Cardinality(explored) >= 4

\* C19: the cells of every solution are pairwise distinct, none of them is
\* the start, and the goal is the last of them and no other.
C19_SimplePath ==
  pc = "solved" =>
    LET cells == solution[2]
    IN /\ Len(cells) >= 1
       /\ \A i, j \in 1..Len(cells) : cells[i] = cells[j] => i = j
       /\ \A i \in 1..Len(cells) : cells[i] # start
       /\ \A i \in 1..Len(cells) : cells[i] = goal <=> i = Len(cells)

C19_Witness ==
  /\ pc = "solved"
  /\ Len(solution[2]) >= 5
  /\ solution[2][Len(solution[2])] = goal
  /\ start \notin {solution[2][i] : i \in 1..Len(solution[2])}

\* C20: during a run the explored set only grows; whenever a pass of the
\* loop starts, and when the run ends with "no solution", num_explored is
\* the size of the explored set; when the run ends with a solution the goal
\* is not in the explored set and num_explored is its size plus one.
C20_CounterAndExplored ==
  /\ [][(pc = "solving" /\ op' = "solve") => explored \subseteq explored']_vars
  /\ []((op = "solve" /\ pc = "solving") => num_explored = Cardinality(explored))
  /\ [](Exhausted => num_explored = Cardinality(explored))
  /\ [](pc = "solved"
        => (goal \notin explored /\ num_explored = Cardinality(explored) + 1))

C20_Witness ==
  /\ pc = "solved"
  /\ goal \notin explored
  /\ num_explored = 5
  /\ Cardinality(explored) = 4

----------------------------------------------------------------------------
(* Specifications *)

Next == Construct \/ Solve \/ Loop

\* the program: a maze is built from a text and solved
Spec == Init /\ [][Next]_vars

NextWith == Construct \/ SolveWith \/ Loop

\* the program with the frontier class of solve following the discipline
SpecWith == Init /\ [][NextWith]_vars

NextAgain == Construct \/ SolveWith \/ Loop \/ SolveAgain

\* the same, solve being called up to MaxSolves times on a maze
SpecAgain == InitAgain /\ [][NextAgain]_vars

NextNeighbors == Construct \/ CallNeighbors

\* neighbors() called on constructed mazes
SpecNeighbors == Init /\ [][NextNeighbors]_vars

InitFrontier ==
  /\ contents = <<>>
  /\ pc = "frontier"
  /\ height = 0
  /\ width = 0
  /\ walls = <<>>
  /\ start = Undefined
  /\ goal = Undefined
  /\ solution = Undefined
  /\ num_explored = 0
  /\ explored = {}
  /\ nodes = <<>>
  /\ frontier = <<>>
  /\ cls \in {"StackFrontier", "QueueFrontier"}
  /\ discipline = "none"
  /\ op = "none"
  /\ ret = None
  /\ removed = {}
  /\ exc = NoException
  /\ arg = Undefined
  /\ result = <<>>
  /\ history = <<>>

NextFrontier == CallAdd \/ CallRemove

\* a frontier of either class used directly
SpecFrontier == InitFrontier /\ [][NextFrontier]_vars
====
